---- MODULE Spec2Model ----
(***************************************************************************)
(* A model of securaye: the advisory cache and fallback of                 *)
(* security_advisor.py (SecurityAdvisor.analyze_with_ai and its helpers)   *)
(* and the parsing and scoring pipeline of network_analyzer.py             *)
(* (NetworkAnalyzer.parse_line, analyze_data, print_summary,               *)
(* get_ai_recommendations).                                                *)
(*                                                                         *)
(* Strings of the program are TLA+ strings; the operators below read them  *)
(* character by character with SubSeq, as str.split and re.search do.      *)
(***************************************************************************)
EXTENDS Integers, Sequences, FiniteSets, TLC

VARIABLES
    analysis_cache,       \* security_advisor.analysis_cache: key -> <<cached_time, response>>
    now,                  \* datetime.now(), in whole seconds
    req,                  \* the analyze_with_ai coroutines: idle, or suspended at the await
    returned,             \* the call of analyze_with_ai that ended last, <<>> before the first
    issued,               \* number of analyze_with_ai calls made so far
    ticks,                \* number of clock advances so far
    listeners,            \* NetworkAnalyzer.listeners
    connections,          \* NetworkAnalyzer.connections
    services_by_port,     \* NetworkAnalyzer.services_by_port (keys present in the defaultdict)
    services_by_process,  \* NetworkAnalyzer.services_by_process
    consumed,             \* the lines analyze_data has gone through, in order
    report,               \* what the last print_summary computed, <<>> before the first
    payload               \* what the last get_ai_recommendations posted to /analyze, <<>> before the first

advisorVars == <<analysis_cache, now, req, returned, issued, ticks>>
analyzerVars == <<listeners, connections, services_by_port, services_by_process,
                  consumed, report, payload>>
vars == <<analysis_cache, now, req, returned, issued, ticks, listeners, connections,
          services_by_port, services_by_process, consumed, report, payload>>

(***************************************************************************)
(* Bounds of the model.                                                    *)
(***************************************************************************)
NumRequests == 2
MaxIssued == 2
MaxTicks == 1
MaxLines == 2
MaxReports == 2

Requests == 1..NumRequests

(***************************************************************************)
(* Generic helpers.                                                        *)
(***************************************************************************)
RECURSIVE SeqToSet(_)
SeqToSet(s) == IF s = <<>> THEN {} ELSE {Head(s)} \cup SeqToSet(Tail(s))

Max(a, b) == IF a >= b THEN a ELSE b

(***************************************************************************)
(* security_advisor.py: configuration and data classes.                    *)
(***************************************************************************)
CACHE_DURATION == 300
\* Config.MAX_RETRIES: set, and read nowhere in the module.
MAX_RETRIES == 3

\* The fields of ServiceInfo, in declaration order: the order of s.dict().
ServiceInfoFields == <<"command", "port", "protocol", "user", "state", "interface">>

ServiceInfo(command, port, protocol, user, state, interface) ==
    [command |-> command, port |-> port, protocol |-> protocol, user |-> user,
     state |-> state, interface |-> interface]

NetworkAnalysis(services, security_score) ==
    [services |-> services, security_score |-> security_score,
     vulnerabilities |-> <<>>, external_connections |-> <<>>,
     suspicious_ports |-> <<>>]

SecurityRecommendation(severity, category, issue, recommendation, commands, priority) ==
    [severity |-> severity, category |-> category, issue |-> issue,
     recommendation |-> recommendation, commands |-> commands, priority |-> priority]

AIResponse(overall_assessment, risk_level, recommendations, executive_summary, action_items, learning_notes) ==
    [overall_assessment |-> overall_assessment, risk_level |-> risk_level,
     recommendations |-> recommendations, executive_summary |-> executive_summary,
     action_items |-> action_items, learning_notes |-> learning_notes]

SecurityRecommendationFields ==
    {"severity", "category", "issue", "recommendation", "commands", "priority"}
\* Fields declared with Field(...): required.
SecurityRecommendationRequired ==
    {"severity", "category", "issue", "recommendation", "priority"}
AIResponseFields ==
    {"overall_assessment", "risk_level", "recommendations", "executive_summary",
     "action_items", "learning_notes"}

(***************************************************************************)
(* SecurityAdvisor._generate_cache_key:                                    *)
(*   json.dumps([s.dict() for s in data.services], sort_keys=True), md5.   *)
(***************************************************************************)
\* s.dict(): the (field, value) pairs of a ServiceInfo in declaration order,
\* whatever the order of the keyword arguments that built it.
ServiceDict(s) == [i \in 1..Len(ServiceInfoFields) |-> <<ServiceInfoFields[i], s[ServiceInfoFields[i]]>>]

\* The rank of each ServiceInfo field name in Python's string order.
KeyRank(k) ==
    CASE k = "command" -> 1 [] k = "interface" -> 2 [] k = "port" -> 3
      [] k = "protocol" -> 4 [] k = "state" -> 5 [] k = "user" -> 6

RECURSIVE InsertByKey(_, _)
InsertByKey(p, sorted) ==
    IF sorted = <<>> THEN <<p>>
    ELSE IF KeyRank(p[1]) < KeyRank(Head(sorted)[1]) THEN <<p>> \o sorted
    ELSE <<Head(sorted)>> \o InsertByKey(p, Tail(sorted))

RECURSIVE SortKeys(_)
\* sort_keys=True: the pairs of one dict by ascending key.
SortKeys(d) == IF d = <<>> THEN <<>> ELSE InsertByKey(Head(d), SortKeys(Tail(d)))

\* json.dumps of one value: a number bare, a string quoted.
JsonValue(field, v) == IF field = "port" THEN ToString(v) ELSE "\"" \o v \o "\""

RECURSIVE JsonPairs(_)
JsonPairs(d) ==
    IF d = <<>> THEN ""
    ELSE "\"" \o Head(d)[1] \o "\": " \o JsonValue(Head(d)[1], Head(d)[2])
         \o (IF Len(d) > 1 THEN ", " ELSE "") \o JsonPairs(Tail(d))

JsonObject(d) == "{" \o JsonPairs(d) \o "}"

RECURSIVE JsonItems(_)
\* The elements of a list, in list order.
JsonItems(dicts) ==
    IF dicts = <<>> THEN ""
    ELSE JsonObject(SortKeys(Head(dicts))) \o (IF Len(dicts) > 1 THEN ", " ELSE "")
         \o JsonItems(Tail(dicts))

JsonDumpsSortKeys(dicts) == "[" \o JsonItems(dicts) \o "]"

\* hashlib.md5(...).hexdigest(): distinct strings of the model get distinct digests.
Md5HexDigest(str) == "md5:" \o str

\* A plausible slip: the whole request is hashed, not its services alone.
CacheKeyOfWholeRequest(data) ==
    Md5HexDigest(JsonDumpsSortKeys([i \in 1..Len(data.services) |-> ServiceDict(data.services[i])]) \o ToString(data.security_score))

_generate_cache_key(data) ==
    Md5HexDigest(JsonDumpsSortKeys([i \in 1..Len(data.services) |-> ServiceDict(data.services[i])]))

(***************************************************************************)
(* SecurityAdvisor.security_patterns and the local fallback.               *)
(***************************************************************************)
\* The pattern names, in the insertion order of the dict.
PatternNames == <<"redis_exposed", "mongodb_exposed", "ssh_root", "dev_server_exposed">>

PatternMatches(name, s) ==
    CASE name = "redis_exposed" -> s.port = 6379 /\ s.interface \in {"*", "0.0.0.0"}
      [] name = "mongodb_exposed" -> s.port = 27017 /\ s.interface \in {"*", "0.0.0.0"}
      [] name = "ssh_root" -> s.port = 22 /\ s.user = "root"
      [] name = "dev_server_exposed" -> s.port \in {3000, 8000, 8080} /\ s.interface \in {"*", "0.0.0.0"}

PatternSeverity(name) ==
    CASE name = "redis_exposed" -> "CRITICAL"
      [] name = "mongodb_exposed" -> "CRITICAL"
      [] name = "ssh_root" -> "HIGH"
      [] name = "dev_server_exposed" -> "MEDIUM"

PatternMessage(name) ==
    CASE name = "redis_exposed" -> "Redis exposed without authentication!"
      [] name = "mongodb_exposed" -> "MongoDB exposed without authentication!"
      [] name = "ssh_root" -> "SSH running as root - security risk!"
      [] name = "dev_server_exposed" -> "Development server exposed to network"

_get_fallback_recommendation(service) ==
    IF service.port = 6379 THEN "Configure Redis with authentication and bind to localhost"
    ELSE IF service.port = 27017 THEN "Enable MongoDB authentication and restrict network access"
    ELSE IF service.port = 22 THEN "Use SSH keys, disable root login, and consider changing default port"
    ELSE IF service.port \in {3000, 8000, 8080} THEN "Ensure development servers are not exposed in production"
    ELSE "Review security configuration for " \o service.command \o " on port " \o ToString(service.port)

\* get_port_recommendations(port)["commands"]: the table of the
\* /recommendations/{port} endpoint.
PortRecommendationCommands(port) ==
    IF port = 22 THEN
        <<"ssh-keygen -t ed25519 -C 'your_email@example.com'",
          "sudo nano /etc/ssh/sshd_config",
          "# Set: PermitRootLogin no",
          "# Set: PasswordAuthentication no",
          "sudo apt install fail2ban">>
    ELSE IF port = 6379 THEN
        <<"redis-cli CONFIG SET requirepass 'strong_password_here'",
          "redis-cli CONFIG SET bind '127.0.0.1'",
          "redis-cli CONFIG REWRITE">>
    ELSE IF port = 27017 THEN
        <<"mongosh",
          "use admin",
          "db.createUser({user: 'admin', pwd: 'password', roles: ['root']})",
          "# Edit /etc/mongod.conf",
          "# security.authorization: enabled">>
    ELSE
        <<"sudo lsof -i :" \o ToString(port) \o "  # Check what's using this port",
          "sudo ufw deny " \o ToString(port) \o "  # Block port with UFW firewall">>

\* A plausible slip: the fallback takes its commands from the endpoint's table.
FixCommandsFromPortTable(service) == PortRecommendationCommands(service.port)

_get_fix_commands(service) ==
    IF service.port = 6379 THEN
        <<"# Edit Redis config",
          "sudo nano /etc/redis/redis.conf",
          "# Add: bind 127.0.0.1",
          "# Add: requirepass your_strong_password_here",
          "sudo systemctl restart redis">>
    ELSE IF service.port = 27017 THEN
        <<"# Enable MongoDB auth",
          "mongo",
          "use admin",
          "db.createUser({user:'admin',pwd:'strong_password',roles:['root']})",
          "# Edit /etc/mongod.conf",
          "# Add: security.authorization: enabled">>
    ELSE IF service.port = 22 /\ service.user = "root" THEN
        <<"# Disable root SSH",
          "sudo nano /etc/ssh/sshd_config",
          "# Set: PermitRootLogin no",
          "sudo systemctl restart sshd">>
    ELSE <<>>

RECURSIVE PatternFindings(_, _)
\* The inner loop of _fallback_analysis: one recommendation per pattern the
\* service matches, in pattern order.
PatternFindings(service, names) ==
    IF names = <<>> THEN <<>>
    ELSE (IF PatternMatches(Head(names), service)
          THEN <<SecurityRecommendation(
                    PatternSeverity(Head(names)),
                    "Network Exposure",
                    PatternMessage(Head(names)) \o " on port " \o ToString(service.port),
                    _get_fallback_recommendation(service),
                    _get_fix_commands(service),
                    IF PatternSeverity(Head(names)) = "CRITICAL" THEN 9 ELSE 7)>>
          ELSE <<>>)
         \o PatternFindings(service, Tail(names))

RECURSIVE FallbackRecommendations(_)
\* The outer loop of _fallback_analysis, over data.services.
FallbackRecommendations(services) ==
    IF services = <<>> THEN <<>>
    ELSE PatternFindings(Head(services), PatternNames) \o FallbackRecommendations(Tail(services))

FallbackRiskLevel(recommendations, security_score) ==
    IF \E i \in 1..Len(recommendations) : recommendations[i].severity = "CRITICAL" THEN "CRITICAL"
    ELSE IF \E i \in 1..Len(recommendations) : recommendations[i].severity = "HIGH" THEN "HIGH"
    ELSE IF security_score < 60 THEN "MEDIUM"
    ELSE "LOW"

\* recommendations[:10]
FirstTen(s) == SubSeq(s, 1, IF Len(s) < 10 THEN Len(s) ELSE 10)

\* Lines 284-306 of _fallback_analysis: the response around the recommendations.
FallbackResponse(recommendations, security_score) ==
    AIResponse(
        "Automated security analysis completed. Several issues require attention.",
        FallbackRiskLevel(recommendations, security_score),
        FirstTen(recommendations),
        "Network security scan revealed configuration issues that need immediate attention.",
        <<"Review and close unnecessary open ports",
          "Bind services to localhost where possible",
          "Enable authentication on all databases",
          "Implement firewall rules">>,
        "Remember: The principle of least privilege applies to network services too!")

_fallback_analysis(data) ==
    FallbackResponse(FallbackRecommendations(data.services), data.security_score)

(***************************************************************************)
(* The remote boundary: what `await self.client.post(...)` can produce.    *)
(* A reply is an exception raised by the client, or an HTTP response with  *)
(* a status and a body.  The assistant's text (ai_text) is a sequence of   *)
(* tokens: prose, a "```json" fence, a "```" fence, or a JSON document.    *)
(***************************************************************************)
Prose == [t |-> "prose", v |-> <<>>]
FenceJson == [t |-> "fence_json", v |-> <<>>]
Fence == [t |-> "fence", v |-> <<>>]
JsonDoc(v) == [t |-> "json", v |-> v]

JsonObjectValue(fields) == [type |-> "object", fields |-> fields]
JsonArrayValue == [type |-> "array", fields |-> <<>>]

RecComplete ==
    [severity |-> "HIGH", category |-> "Access", issue |-> "Open port",
     recommendation |-> "Close it", commands |-> <<"sudo ufw deny 3000">>, priority |-> 8]
\* A recommendation without the required `priority` field.
RecNoPriority ==
    [severity |-> "HIGH", category |-> "Access", issue |-> "Open port",
     recommendation |-> "Close it"]

DocComplete ==
    JsonObjectValue(
        [overall_assessment |-> "Exposed services found", risk_level |-> "HIGH",
         recommendations |-> <<RecComplete>>, executive_summary |-> "Act soon",
         action_items |-> <<"Close port 3000">>, learning_notes |-> "Least privilege"])
\* {}: every field takes its default.
DocEmpty == JsonObjectValue(<<>>)
DocBadRecommendation == JsonObjectValue([recommendations |-> <<RecNoPriority>>])

ClientError(kind) == [kind |-> kind, status |-> 0, envelope |-> "none", content |-> <<>>]
HttpResponse(status, envelope, content) == [kind |-> "response", status |-> status, envelope |-> envelope, content |-> content]

RemoteReplies ==
    { ClientError("ConnectError"),
      ClientError("TimeoutException"),
      HttpResponse(500, "none", <<>>),
      HttpResponse(200, "not_json", <<>>),
      HttpResponse(200, "no_choices", <<>>),
      HttpResponse(200, "choices", <<JsonDoc(DocComplete)>>),
      HttpResponse(200, "choices", <<Prose, FenceJson, JsonDoc(DocEmpty), Fence, Prose>>),
      HttpResponse(200, "choices", <<Fence, JsonDoc(DocComplete), Fence>>),
      HttpResponse(200, "choices", <<Prose, JsonDoc(DocComplete)>>),
      HttpResponse(200, "choices", <<Prose>>),
      HttpResponse(200, "choices", <<JsonDoc(DocBadRecommendation)>>),
      HttpResponse(200, "choices", <<JsonDoc(JsonArrayValue)>>) }

\* Exception classes of the model and where they sit in the hierarchy.
RequestErrorClasses == {"ConnectError", "TimeoutException"}
ExceptionClasses ==
    RequestErrorClasses \cup {"HTTPStatusError", "JSONDecodeError", "KeyError", "AttributeError", "ValidationError"}

IsFenceToken(tok) == tok.t \in {"fence", "fence_json"}

RECURSIVE AfterFirst(_, _)
\* text.split(sep)[1] joined with what follows: the tokens after the first
\* token of a kind in `kinds`.
AfterFirst(text, kinds) ==
    IF text = <<>> THEN <<>>
    ELSE IF Head(text).t \in kinds THEN Tail(text)
    ELSE AfterFirst(Tail(text), kinds)

RECURSIVE BeforeFirstFence(_)
\* text.split("```")[0]
BeforeFirstFence(text) ==
    IF text = <<>> THEN <<>>
    ELSE IF IsFenceToken(Head(text)) THEN <<>>
    ELSE <<Head(text)>> \o BeforeFirstFence(Tail(text))

\* Lines 180-183: strip a markdown code block around the JSON.
StripCodeBlock(ai_text) ==
    IF \E i \in 1..Len(ai_text) : ai_text[i].t = "fence_json"
    THEN BeforeFirstFence(AfterFirst(ai_text, {"fence_json"}))
    ELSE IF \E i \in 1..Len(ai_text) : IsFenceToken(ai_text[i])
    THEN BeforeFirstFence(AfterFirst(ai_text, {"fence", "fence_json"}))
    ELSE ai_text

\* json.loads: a value when the text is exactly one JSON document.
JsonLoadsOk(text) == Len(text) = 1 /\ text[1].t = "json"

DictGet(d, k, default) == IF k \in DOMAIN d THEN d[k] ELSE default

\* SecurityRecommendation(**rec): pydantic rejects a missing required field.
RecValidates(rec) == SecurityRecommendationRequired \subseteq DOMAIN rec

BuildRecommendation(rec) ==
    SecurityRecommendation(rec.severity, rec.category, rec.issue, rec.recommendation,
                           DictGet(rec, "commands", <<>>), rec.priority)

\* Lines 188-197: the exception the construction raises, or "none".
BuildError(ai_data) ==
    IF ai_data.type # "object" THEN "AttributeError"
    ELSE LET recs == DictGet(ai_data.fields, "recommendations", <<>>) IN
         IF \E i \in 1..Len(recs) : ~RecValidates(recs[i]) THEN "ValidationError"
         ELSE "none"

BuildResponse(ai_data) ==
    LET d == ai_data.fields
        recs == DictGet(d, "recommendations", <<>>) IN
    AIResponse(
        DictGet(d, "overall_assessment", "Security analysis complete"),
        DictGet(d, "risk_level", "MEDIUM"),
        [i \in 1..Len(recs) |-> BuildRecommendation(recs[i])],
        DictGet(d, "executive_summary", "Network requires attention"),
        DictGet(d, "action_items", <<>>),
        DictGet(d, "learning_notes", ""))

(***************************************************************************)
(* SecurityAdvisor.analyze_with_ai.  The coroutine runs without            *)
(* interruption up to `await self.client.post(...)` and again from the     *)
(* reply to its return: two atomic steps per call, Start and Complete.     *)
(***************************************************************************)
SecondsPerDay == 24 * 3600

\* timedelta.seconds of a non-negative difference: the seconds within the
\* last day, the days being held in timedelta.days.
TimedeltaSeconds(age) == age % SecondsPerDay

\* A plausible slip: the comparison of line 140 the wrong way round.
CacheFreshReversed(cached_time, t) == TimedeltaSeconds(t - cached_time) > CACHE_DURATION

\* Line 140: (datetime.now() - cached_time).seconds < CACHE_DURATION
CacheFresh(cached_time, t) == TimedeltaSeconds(t - cached_time) < CACHE_DURATION

\* Lines 138-141: the cached response is returned.
CacheHit(cache, key, t) == key \in DOMAIN cache /\ CacheFresh(cache[key][1], t)

\* analysis_cache[cache_key] = (datetime.now(), ai_response)
CachePut(cache, key, t, response) ==
    [k \in DOMAIN cache \cup {key} |-> IF k = key THEN <<t, response>> ELSE cache[k]]

\* A plausible slip: only `except httpx.RequestError` is written.
ExceptClauseRequestErrorOnly(exc) ==
    IF exc \in RequestErrorClasses THEN "RequestError" ELSE "propagate"

\* Lines 208-215: the except clause of the outer try that takes an exception.
ExceptClause(exc) ==
    IF exc \in RequestErrorClasses THEN "RequestError"
    ELSE IF exc \in ExceptionClasses THEN "Exception"
    ELSE "propagate"

\* Lines 171-175: the exception raised before ai_text is in hand, or "none".
EnvelopeError(reply) ==
    IF reply.kind # "response" THEN reply.kind
    ELSE IF reply.status < 200 \/ reply.status >= 300 THEN "HTTPStatusError"
    ELSE IF reply.envelope = "not_json" THEN "JSONDecodeError"
    ELSE IF reply.envelope = "no_choices" THEN "KeyError"
    ELSE "none"

\* Lines 171-215, from the reply to the end of the call: the steps taken,
\* what is returned, whether analysis_cache is written, what propagates.
AfterReply(data, reply) ==
    LET fallback == _fallback_analysis(data)
        handled(exc) ==
            IF ExceptClause(exc) = "propagate"
            THEN [steps |-> <<"RAISE">>, result |-> <<>>, store |-> FALSE, raised |-> exc]
            ELSE [steps |-> <<"LOCAL_FALLBACK", "RETURN">>, result |-> <<fallback>>,
                  store |-> FALSE, raised |-> "none"]
    IN
    IF EnvelopeError(reply) # "none" THEN handled(EnvelopeError(reply))
    ELSE LET text == StripCodeBlock(reply.content) IN
         IF ~JsonLoadsOk(text)
         THEN \* except json.JSONDecodeError: the fallback, then line 204
              [steps |-> <<"LOCAL_FALLBACK", "CACHE_STORE", "RETURN">>,
               result |-> <<fallback>>, store |-> TRUE, raised |-> "none"]
         ELSE IF BuildError(text[1].v) # "none" THEN handled(BuildError(text[1].v))
         ELSE [steps |-> <<"CACHE_STORE", "RETURN">>,
               result |-> <<BuildResponse(text[1].v)>>, store |-> TRUE, raised |-> "none"]

Idle == [pc |-> "idle", data |-> <<>>, cache_key |-> ""]

ClockSteps == {CACHE_DURATION - 1, CACHE_DURATION, SecondsPerDay}

SvcRedis == ServiceInfo("redis-server", 6379, "TCP", "root", "LISTENING", "*")
SvcNode == ServiceInfo("node", 3000, "TCP", "hue", "LISTENING", "*")

AnalysisInputs ==
    { NetworkAnalysis(<<SvcRedis, SvcNode>>, 68),
      NetworkAnalysis(<<SvcNode, SvcRedis>>, 68),
      NetworkAnalysis(<<SvcNode>>, 90),
      [NetworkAnalysis(<<SvcNode>>, 50) EXCEPT
          !.vulnerabilities = <<"Telnet service (unencrypted)">>,
          !.external_connections = <<[command |-> "curl", destination |-> "203.0.113.5"]>>,
          !.suspicious_ports = <<23>>] }

\* analyze_with_ai up to the await: the cache lookup, and on a miss the request sent.
Start(r, data) ==
    /\ req[r].pc = "idle"
    /\ issued < MaxIssued
    /\ issued' = issued + 1
    /\ LET cache_key == _generate_cache_key(data) IN
       IF CacheHit(analysis_cache, cache_key, now)
       THEN /\ returned' = <<[data |-> data, cache_key |-> cache_key,
                              result |-> <<analysis_cache[cache_key][2]>>,
                              steps |-> <<"START", "CACHE_HIT", "RETURN">>,
                              raised |-> "none"]>>
            /\ req' = req
       ELSE /\ req' = [req EXCEPT ![r] = [pc |-> "awaiting", data |-> <<data>>, cache_key |-> cache_key]]
            /\ returned' = returned
    /\ UNCHANGED <<analysis_cache, now, ticks>>
    /\ UNCHANGED analyzerVars

\* A plausible slip: cache_key is kept on the advisor object all requests
\* share, where another request in flight has overwritten it.
StoreKeyShared(r) ==
    IF \E q \in Requests : q # r /\ req[q].pc = "awaiting"
    THEN req[CHOOSE q \in Requests : q # r /\ req[q].pc = "awaiting"].cache_key
    ELSE req[r].cache_key

\* Lines 137 and 204: cache_key is a local of the call, and the entry is
\* written under it.
StoreKey(r) == req[r].cache_key

\* analyze_with_ai from the reply of the remote boundary to its end.
Complete(r, reply) ==
    /\ req[r].pc = "awaiting"
    /\ \E out \in {AfterReply(req[r].data[1], reply)} :
       /\ returned' = <<[data |-> req[r].data[1], cache_key |-> req[r].cache_key,
                         result |-> out.result,
                         steps |-> <<"START", "CACHE_MISS", "REMOTE_CALL">> \o out.steps,
                         raised |-> out.raised]>>
       /\ analysis_cache' =
            IF out.store
            THEN CachePut(analysis_cache, StoreKey(r), now, out.result[1])
            ELSE analysis_cache
    /\ req' = [req EXCEPT ![r] = Idle]
    /\ UNCHANGED <<now, issued, ticks>>
    /\ UNCHANGED analyzerVars

\* Time passes between two steps.
Tick(d) ==
    /\ ticks < MaxTicks
    /\ ticks' = ticks + 1
    /\ now' = now + d
    /\ UNCHANGED <<analysis_cache, req, issued, returned>>
    /\ UNCHANGED analyzerVars

(***************************************************************************)
(* network_analyzer.py: string helpers (str.split, `in`, re.search).       *)
(***************************************************************************)
Char(str, i) == SubSeq(str, i, i)
Whitespace == {" ", "\t"}
Digits == {"0", "1", "2", "3", "4", "5", "6", "7", "8", "9"}

DigitValue(c) ==
    CASE c = "0" -> 0 [] c = "1" -> 1 [] c = "2" -> 2 [] c = "3" -> 3 [] c = "4" -> 4
      [] c = "5" -> 5 [] c = "6" -> 6 [] c = "7" -> 7 [] c = "8" -> 8 [] c = "9" -> 9

Min(S) == CHOOSE x \in S : \A y \in S : x <= y

\* The places where a word starts: no whitespace there, whitespace or nothing before.
WordStarts(str) ==
    {i \in 1..Len(str) : Char(str, i) \notin Whitespace /\ (i = 1 \/ Char(str, i - 1) \in Whitespace)}

\* The last place of the word that starts at i.
WordEnd(str, i) == Min({j \in i..Len(str) : j = Len(str) \/ Char(str, j + 1) \in Whitespace})

\* The k-th element of a set of numbers, counted from the least.
Nth(S, k) == CHOOSE x \in S : Cardinality({y \in S : y <= x}) = k

\* A sequence written as a function on 1..n, as the tuple it is.
AsTuple(seq) == SubSeq(seq, 1, Len(seq))

\* The words of str, given the places where they start.
WordsAt(str, starts) == AsTuple([k \in 1..Cardinality(starts) |-> SubSeq(str, Nth(starts, k), WordEnd(str, Nth(starts, k)))])

\* str.split(): the words between runs of whitespace.
Split(str) == CHOOSE words \in {WordsAt(str, starts) : starts \in {WordStarts(str)}} : TRUE

RECURSIVE JoinWithSpace(_)
\* ' '.join(words)
JoinWithSpace(words) ==
    IF words = <<>> THEN ""
    ELSE IF Len(words) = 1 THEN words[1]
    ELSE words[1] \o " " \o JoinWithSpace(Tail(words))

\* sub in str
Contains(str, sub) == \E i \in 1..(Len(str) - Len(sub) + 1) : SubSeq(str, i, i + Len(sub) - 1) = sub

\* str.startswith(prefix)
StartsWith(str, prefix) == Len(str) >= Len(prefix) /\ SubSeq(str, 1, Len(prefix)) = prefix

RECURSIVE DigitRunEnd(_, _)
\* The last index of the run of digits that starts at i (i - 1 when there is none).
DigitRunEnd(str, i) ==
    IF i <= Len(str) /\ Char(str, i) \in Digits THEN DigitRunEnd(str, i + 1) ELSE i - 1

RECURSIVE ToInt(_, _)
\* int(digits), most significant digit first.
ToInt(digits, acc) ==
    IF digits = "" THEN acc
    ELSE ToInt(SubSeq(digits, 2, Len(digits)), 10 * acc + DigitValue(Char(digits, 1)))

\* The positions where r':(\d+)' matches: a colon with a digit after it.
ColonDigitAt(str) == {i \in 1..(Len(str) - 1) : Char(str, i) = ":" /\ Char(str, i + 1) \in Digits}

\* re.search(r':(\d+)', name): group 1 of the leftmost match, <<>> without one.
SearchColonDigits(str) ==
    IF ColonDigitAt(str) = {} THEN <<>>
    ELSE LET i == Min(ColonDigitAt(str)) IN <<SubSeq(str, i + 1, DigitRunEnd(str, i + 1))>>

\* re.search(r':(\d+)$', name): the match must run to the end of the string.
SearchColonDigitsAtEnd(str) ==
    LET ends == {i \in ColonDigitAt(str) : DigitRunEnd(str, i + 1) = Len(str)} IN
    IF ends = {} THEN <<>>
    ELSE <<SubSeq(str, Min(ends) + 1, Len(str))>>

(***************************************************************************)
(* NetworkAnalyzer.parse_line and _parse_network_info.  A parsed line is   *)
(* a dict: a function whose domain holds "port" only when a port was found.*)
(***************************************************************************)
Protocols == {"TCP", "UDP", "ICMP", "ICMPV6"}

\* The index of the first field that is a protocol, 0 for the -1 of the code.
ProtocolIndex(parts) ==
    IF \E i \in 1..Len(parts) : parts[i] \in Protocols
    THEN Min({i \in 1..Len(parts) : parts[i] \in Protocols})
    ELSE 0

WithPort(data, port) == [k \in DOMAIN data \cup {"port"} |-> IF k = "port" THEN port ELSE data[k]]
WithState(data, state) == [k \in DOMAIN data \cup {"state"} |-> IF k = "state" THEN state ELSE data[k]]

_parse_network_info(data) ==
    LET name == data.name IN
    IF Contains(name, "(LISTEN)") THEN
        \* Line 112 runs only when r':(\d+)' found nothing; its own pattern ends
        \* in the same ':(\d+)', so it finds nothing either.
        IF SearchColonDigits(name) = <<>> THEN WithState(data, "LISTENING")
        ELSE WithPort(WithState(data, "LISTENING"), ToInt(SearchColonDigits(name)[1], 0))
    ELSE IF Contains(name, "(ESTABLISHED)") THEN WithState(data, "ESTABLISHED")
    ELSE IF Contains(name, "(CLOSED)") THEN WithState(data, "CLOSED")
    ELSE IF Contains(name, "(SYN_SENT)") THEN WithState(data, "SYN_SENT")
    ELSE IF data.protocol = "UDP" /\ SearchColonDigitsAtEnd(name) # <<>>
         THEN WithPort(WithState(data, "OTHER"), ToInt(SearchColonDigitsAtEnd(name)[1], 0))
    ELSE WithState(data, "OTHER")

\* The least number of fields parse_line asks of a line (line 60).
MinFields == 9

\* A plausible slip: the test of line 60 is left out, and a line cut short is
\* parsed with the fields it has.
ParsePartsNoLengthCheck(line, parts) ==
    IF StartsWith(line, "COMMAND") THEN <<>>
    ELSE IF ProtocolIndex(parts) = 0 THEN <<>>
    ELSE <<_parse_network_info(
              [command |-> parts[1], pid |-> parts[2], user |-> parts[3],
               protocol |-> parts[ProtocolIndex(parts)],
               name |-> JoinWithSpace(SubSeq(parts, ProtocolIndex(parts) + 1, Len(parts))),
               full_line |-> line])>>

\* parse_line(line): <<data>>, or <<>> for None.
ParseParts(line, parts) ==
    IF StartsWith(line, "COMMAND") THEN <<>>
    ELSE IF Len(parts) < MinFields THEN <<>>
    ELSE IF ProtocolIndex(parts) = 0 THEN <<>>
    ELSE <<_parse_network_info(
              [command |-> parts[1], pid |-> parts[2], user |-> parts[3],
               protocol |-> parts[ProtocolIndex(parts)],
               name |-> JoinWithSpace(SubSeq(parts, ProtocolIndex(parts) + 1, Len(parts))),
               full_line |-> line])>>

parse_line(line) == ParseParts(line, Split(line))

\* d.get('port', default)
GetPort(data, default) == IF "port" \in DOMAIN data THEN data.port ELSE default

(***************************************************************************)
(* NetworkAnalyzer.print_summary: the security analysis and the score.     *)
(***************************************************************************)
_assess_port_risk(port) ==
    IF port \in {23, 6379, 27017, 9200} THEN "CRITICAL"
    ELSE IF port \in {21, 22, 3389, 5900, 5432, 3306} THEN "HIGH"
    ELSE IF port < 1024 THEN "MEDIUM"
    ELSE "LOW"

\* The keys of the suspicious_ports table of print_summary (lines 260-273).
SuspiciousPorts == {23, 21, 139, 445, 3389, 5900, 6379, 5432, 3306, 27017, 9200, 111}

\* Line 245: the listener is bound to every interface.
OnAllInterfaces(listener) == Contains(listener.name, "*:") \/ Contains(listener.name, "0.0.0.0")

ExposedWithPort(listener) == OnAllInterfaces(listener) /\ "port" \in DOMAIN listener

\* The (command, port, user) of each of these listeners, in their order.
ListenerTuples(ls) == AsTuple([i \in 1..Len(ls) |-> <<ls[i].command, ls[i].port, ls[i].user>>])

\* Lines 243-247: one (command, port, user) per listener line, in order.
AllInterfaceListeners(ls) == ListenerTuples(SelectSeq(ls, ExposedWithPort))

RootOnHighPort(listener) == listener.user = "root" /\ GetPort(listener, 0) > 1024

\* Line 329: [l for l in listeners if user == 'root' and l.get('port', 0) > 1024]
RootServices(ls) == SelectSeq(ls, RootOnHighPort)

\* A plausible slip: the root services are left out of the score.
ScoreWithoutRootPenalty(exposed, by_port, root) ==
    Max(0, 100 - Len(exposed) * 10 - Cardinality(SuspiciousPorts \cap DOMAIN by_port) * 5)

\* A plausible slip: line 341 is left out.
ScoreUnclamped(exposed, by_port, root) ==
    100 - Len(exposed) * 10 - Cardinality(SuspiciousPorts \cap DOMAIN by_port) * 5 - Len(root) * 2

\* A plausible slip: the root services are added where line 340 takes them off.
ScoreRootBonus(exposed, by_port, root) ==
    Max(0, 100 - Len(exposed) * 10 - Cardinality(SuspiciousPorts \cap DOMAIN by_port) * 5 + Len(root) * 2)

\* Lines 337-341.
Score(exposed, by_port, root) ==
    Max(0, 100 - Len(exposed) * 10
             - Cardinality(SuspiciousPorts \cap DOMAIN by_port) * 5
             - Len(root) * 2)

\* Lines 251-256: sorted(set(all_interface_listeners)), each with its severity.
ExposureFindings(exposed) ==
    {[command |-> t[1], port |-> t[2], user |-> t[3], severity |-> _assess_port_risk(t[2])] : t \in SeqToSet(exposed)}

(***************************************************************************)
(* NetworkAnalyzer.categorize_service and the table of __init__.  A dict   *)
(* keeps the order in which its keys were written.                         *)
(***************************************************************************)
service_categories ==
    << [category |-> "system", services |-> <<"launchd", "mDNSRespo", "kdc", "AirPlayXP", "rpcbind">>],
       [category |-> "file_sharing", services |-> <<"nfsd", "netbiosd", "rpc.statd", "rpc.lockd", "rpc.rquot">>],
       [category |-> "development", services |-> <<"Code\\x20H", "node", "ollama", "Ollama", "com.docke", "Docker">>],
       [category |-> "communication", services |-> <<"Mail", "ssh", "rapportd", "identitys">>],
       [category |-> "media", services |-> <<"Spotify", "Jump\\x20D">>],
       [category |-> "browsers", services |-> <<"Brave\\x20", "firefox">>],
       [category |-> "productivity", services |-> <<"Windows", "ControlCe">>],
       [category |-> "system_services", services |-> <<"homed", "replicato">>] >>

\* Line 135: any(service in command for service in services)
AnyServiceIn(services, command) == \E i \in 1..Len(services) : Contains(command, services[i])

RECURSIVE CategorizeFrom(_, _)
\* Lines 134-137: the loop over the table from entry i on.
CategorizeFrom(i, command) ==
    IF i > Len(service_categories) THEN "other"
    ELSE IF AnyServiceIn(service_categories[i].services, command) THEN service_categories[i].category
    ELSE CategorizeFrom(i + 1, command)

RECURSIVE CategorizeLast(_, _, _)
\* A plausible slip: the loop goes on after a match, and the last match wins.
CategorizeLast(i, command, found) ==
    IF i > Len(service_categories) THEN found
    ELSE IF AnyServiceIn(service_categories[i].services, command)
         THEN CategorizeLast(i + 1, command, service_categories[i].category)
    ELSE CategorizeLast(i + 1, command, found)

CategorizeLastMatch(command) == CategorizeLast(1, command, "other")

categorize_service(command) == CategorizeFrom(1, command)

HasPort(listener) == "port" \in DOMAIN listener

\* The entry of each of these listeners under its category, in their order.
CategoryEntries(ls) ==
    AsTuple([i \in 1..Len(ls) |-> [category |-> categorize_service(ls[i].command), command |-> ls[i].command, port |-> ls[i].port, protocol |-> ls[i].protocol]])

\* Lines 174-179: every listener with a port is listed under its category.
Categorized(ls) == CategoryEntries(SelectSeq(ls, HasPort))

(***************************************************************************)
(* The connection analysis of print_summary and _is_private_ip.            *)
(***************************************************************************)
\* The least index at or after i where sep starts in str, 0 when there is none.
Find(str, sep, i) ==
    IF \E j \in i..(Len(str) - Len(sep) + 1) : SubSeq(str, j, j + Len(sep) - 1) = sep
    THEN Min({j \in i..(Len(str) - Len(sep) + 1) : SubSeq(str, j, j + Len(sep) - 1) = sep})
    ELSE 0

RECURSIVE SplitAt(_, _, _)
\* str.split(sep), once the first place of sep is known.
SplitAt(str, sep, at) ==
    IF at = 0 THEN <<str>>
    ELSE <<SubSeq(str, 1, at - 1)>>
         \o SplitAt(SubSeq(str, at + Len(sep), Len(str)), sep, Find(SubSeq(str, at + Len(sep), Len(str)), sep, 1))

\* str.split(sep) for a non-empty separator.
SplitOn(str, sep) == SplitAt(str, sep, Find(str, sep, 1))

private_ranges ==
    { "10.", "172.16.", "172.17.", "172.18.", "172.19.",
      "172.20.", "172.21.", "172.22.", "172.23.", "172.24.",
      "172.25.", "172.26.", "172.27.", "172.28.", "172.29.",
      "172.30.", "172.31.", "192.168.", "fe80:", "fd" }

_is_private_ip(ip) == \E r \in private_ranges : StartsWith(ip, r)

\* Lines 314-319, for a name that holds '->': the destination when it is listed.
ExternalDestination(parts) ==
    IF Len(parts) = 2 /\ ~_is_private_ip(SplitOn(parts[2], ":")[1])
    THEN <<SplitOn(parts[2], ":")[1]>>
    ELSE <<>>

\* Lines 309-318: the tests a connection passes to be listed.
IsExternal(conn) ==
    /\ conn.state = "ESTABLISHED"
    /\ ~Contains(conn.name, "127.0.0.1")
    /\ ~Contains(conn.name, "localhost")
    /\ Contains(conn.name, "->")
    /\ ExternalDestination(SplitOn(conn.name, "->")) # <<>>

\* Line 319: the (command, dest) of each of these connections, in their order.
ConnectionTuples(conns) == AsTuple([i \in 1..Len(conns) |-> <<conns[i].command, ExternalDestination(SplitOn(conns[i].name, "->"))[1]>>])

\* Lines 307-319.
ExternalConnections(conns) == ConnectionTuples(SelectSeq(conns, IsExternal))

(***************************************************************************)
(* The lookups print_summary makes in the defaultdict services_by_port.    *)
(***************************************************************************)
\* The keys of the well_known table (lines 209-215).
WellKnownPorts == {22, 80, 443, 445, 3389, 5432, 6379, 8000, 3000, 111, 2049, 88, 53, 5353, 11434, 7000}

\* defaultdict(list)[key]: reading a key that is not there puts it there.
DefaultDictGetItem(index, key) ==
    [k \in DOMAIN index \cup {key} |-> IF k \in DOMAIN index THEN index[k] ELSE <<>>]

\* A plausible slip: the index is read without asking first whether the port is in it.
PortLookupUnguarded(index, port) == DefaultDictGetItem(index, port)

\* Lines 218-219 and 276-277: `if port in self.services_by_port:` and then the read.
PortLookup(index, port) == IF port \in DOMAIN index THEN DefaultDictGetItem(index, port) ELSE index

\* The loops of lines 217-221 and 275-280 over the keys of a table: the index
\* with every key the reads have put there.
PortLookups(index, ports) ==
    [k \in DOMAIN index \cup UNION {DOMAIN PortLookup(index, port) : port \in ports} |->
        IF k \in DOMAIN index THEN index[k] ELSE <<>>]

\* What print_summary works out and prints, from the registry as the
\* lookups left it.
SecurityReport(ls, conns, by_port, exposed, root) ==
    [all_interface_listeners |-> exposed,
     findings |-> ExposureFindings(exposed),
     root_services |-> root,
     external_connections |-> ExternalConnections(conns),
     categorized |-> Categorized(ls),
     score |-> Score(exposed, by_port, root)]

(***************************************************************************)
(* get_ai_recommendations: the request it prepares for the advisor.        *)
(***************************************************************************)
\* Line 411: the interface given to a listener.
InterfaceOf(listener) == IF Contains(listener.name, "*:") THEN "*" ELSE "127.0.0.1"

\* Lines 412-419: the dict of one listener.
ServiceEntry(listener) ==
    [command |-> listener.command, port |-> listener.port, protocol |-> listener.protocol,
     user |-> listener.user, state |-> listener.state, interface |-> InterfaceOf(listener)]

HasPortKey(listener) == "port" \in DOMAIN listener

ServiceEntries(ls) == AsTuple([i \in 1..Len(ls) |-> ServiceEntry(ls[i])])

\* Lines 407-419: services_data, one dict per listener with a port.
ServicesData(ls) == ServiceEntries(SelectSeq(ls, HasPortKey))

\* Line 424: the ports looked for in services_by_port, in the order of the list.
AdvisorSuspiciousPorts == <<23, 6379, 27017, 9200>>

\* Line 424: suspicious_ports.
SuspiciousPortsIn(by_port) == LET InUse(p) == p \in DOMAIN by_port IN SelectSeq(AdvisorSuspiciousPorts, InUse)

\* Lines 427-431, over the list of lines 422-423 (no test for a port here).
AdvisorScore(ls, by_port) ==
    Max(0, 100 - Len(SelectSeq(ls, OnAllInterfaces)) * 10
             - Len(SuspiciousPortsIn(by_port)) * 5
             - Len(RootServices(ls)) * 2)

\* Lines 434-440.
Vulnerabilities(by_port) ==
    (IF 6379 \in DOMAIN by_port THEN <<"Redis exposed without authentication">> ELSE <<>>)
    \o (IF 27017 \in DOMAIN by_port THEN <<"MongoDB potentially without authentication">> ELSE <<>>)
    \o (IF 23 \in DOMAIN by_port THEN <<"Telnet service (unencrypted)">> ELSE <<>>)

ConnectionEntries(tuples) == AsTuple([i \in 1..Len(tuples) |-> [command |-> tuples[i][1], destination |-> tuples[i][2]]])

\* Lines 443-456: external_conns, the same tests as in print_summary.
ExternalConns(conns) == ConnectionEntries(ExternalConnections(conns))

\* Lines 459-465: the body of the POST to /analyze.
Payload(ls, conns, by_port) ==
    [services |-> ServicesData(ls),
     security_score |-> AdvisorScore(ls, by_port),
     vulnerabilities |-> Vulnerabilities(by_port),
     external_connections |-> ExternalConns(conns),
     suspicious_ports |-> SuspiciousPortsIn(by_port)]

\* Single lines of lsof output.
InputLines ==
    { "COMMAND PID USER FD TYPE DEVICE SIZE/OFF NODE NAME",
      "redis-server 1234 root 6u IPv4 0xabc123 0t0 TCP *:6379 (LISTEN)",
      "node 4321 hue 22u IPv4 0xdef456 0t0 TCP *:3000 (LISTEN)",
      "sshd 1 root 3u IPv4 0x3 0t0 TCP 0.0.0.0:22 (LISTEN)",
      "dockerd 77 root 8u IPv4 0x1 0t0 TCP 127.0.0.1:8080 (LISTEN)",
      "curl 900 hue 5u IPv4 0x2 0t0 TCP 10.0.0.2:5555->203.0.113.5:443 (ESTABLISHED)",
      "ssh 901 hue 3u IPv4 0x4 0t0 TCP 10.0.0.2:5556->192.168.1.5:22 (ESTABLISHED)",
      "ssh 902 hue 3u IPv6 0x5 0t0 TCP [fe80::1]:5557->[fe80::2]:22 (ESTABLISHED)",
      "Mail 400 hue 11u IPv4 0xa 0t0 TCP 10.0.0.2:5558->198.51.100.7:993 (CLOSED)",
      "Mail 400 hue 12u IPv4 0xb 0t0 TCP 10.0.0.2:5559->198.51.100.7:993 (SYN_SENT)",
      "mDNSRespo 300 _mdns 6u IPv4 0x6 0t0 UDP *:5353",
      "launchd 1 root 7u IPv4 0x7 0t0 TCP *:80 (LISTEN)",
      "ssh-node 78 hue 9u IPv4 0x9 0t0 TCP 127.0.0.1:9000 (LISTEN)",
      "httpd 80 root 4u IPv4 0x8 0t0 TCP *:http (LISTEN)",
      "nc 5 root TCP *:9999 (LISTEN)",
      "vim 12 hue cwd DIR 1,4 640 2 /Users/hue",
      " " }

\* A usual lsof output: the header, then the records.
LsofOutput ==
    << "COMMAND PID USER FD TYPE DEVICE SIZE/OFF NODE NAME",
       "node 4321 hue 22u IPv4 0xdef456 0t0 TCP *:3000 (LISTEN)",
       "nc 5 root TCP *:9999 (LISTEN)",
       "sshd 1 root 3u IPv4 0x3 0t0 TCP 0.0.0.0:22 (LISTEN)" >>

\* A host with eleven listeners on every interface.
ManyExposed ==
    [i \in 1..11 |-> "redis-server 1234 root 6u IPv4 0xabc123 0t0 TCP *:6379 (LISTEN)"]

\* A host with listeners bound to the IPv6 loopback, to the IPv4 wildcard
\* and to an address of its LAN.
BoundAddresses ==
    << "python3 55 hue 23u IPv6 0xc 0t0 TCP [::1]:8080 (LISTEN)",
       "redis-server 1235 redis 6u IPv4 0xd 0t0 TCP 0.0.0.0:6379 (LISTEN)",
       "postgres 60 postgres 5u IPv4 0xe 0t0 TCP 192.168.1.10:5432 (LISTEN)" >>

\* The lists of lines analyze_data is called with.
InputBatches == {<<line>> : line \in InputLines} \cup {LsofOutput, ManyExposed, BoundAddresses}

\* Every line of these lists.
AllInputLines == UNION {{lines[i] : i \in 1..Len(lines)} : lines \in InputBatches}

\* line.strip() is empty
IsBlank(line) == \A i \in 1..Len(line) : Char(line, i) \in Whitespace

\* A plausible slip: a record in no known state is taken for a connection.
ConnectionStatesWithOther == {"ESTABLISHED", "CLOSED", "SYN_SENT", "OTHER"}

\* Line 154: the states that make a record a connection.
ConnectionStates == {"ESTABLISHED", "CLOSED", "SYN_SENT"}

\* The four collections of the analyzer, as one value.
Registry ==
    [listeners |-> listeners, connections |-> connections,
     services_by_port |-> services_by_port, services_by_process |-> services_by_process]

\* Line 145: parse_line(line) for each input line, worked out once.
ParseTable == {<<line, parse_line(line)>> : line \in AllInputLines}

\* Line 145: data = self.parse_line(line), read from the table.
Parsed(line) == (CHOOSE entry \in ParseTable : entry[1] = line)[2]

\* Lines 142-147: a blank line and a line parse_line gave None for are passed over.
Parses(line) == ~IsBlank(line) /\ Parsed(line) # <<>>

\* The records of these lines, in their order.
RecordsOf(lines) == AsTuple([i \in 1..Len(lines) |-> Parsed(lines[i])[1]])

\* Lines 141-147: the records the loop of analyze_data files, in the order of the lines.
ParsedLines(lines) == RecordsOf(SelectSeq(lines, Parses))

\* Lines 150 and 154: `if` LISTENING, `elif` one of the connection states.
IsListening(data) == data.state = "LISTENING"
IsConnection(data) == data.state # "LISTENING" /\ data.state \in ConnectionStates
IsListeningWithPort(data) == IsListening(data) /\ "port" \in DOMAIN data

\* Lines 152-153 and 158: defaultdict(list)[key].append(data) for every
\* record, each under its key, in the order of the records.
AppendAll(index, keyed) ==
    [key \in DOMAIN index \cup {keyed[i][1] : i \in 1..Len(keyed)} |->
        (IF key \in DOMAIN index THEN index[key] ELSE <<>>)
        \o [i \in 1..Cardinality({j \in 1..Len(keyed) : keyed[j][1] = key}) |->
               keyed[Nth({j \in 1..Len(keyed) : keyed[j][1] = key}, i)][2]]]

KeyedByPort(records) == AsTuple([i \in 1..Len(records) |-> <<records[i].port, records[i]>>])
KeyedByCommand(records) == AsTuple([i \in 1..Len(records) |-> <<records[i].command, records[i]>>])

\* Lines 149-158: every record is filed, in the order of the records.
Register(reg, records) ==
    [listeners |-> reg.listeners \o SelectSeq(records, IsListening),
     connections |-> reg.connections \o SelectSeq(records, IsConnection),
     services_by_port |-> AppendAll(reg.services_by_port, KeyedByPort(SelectSeq(records, IsListeningWithPort))),
     services_by_process |-> AppendAll(reg.services_by_process, KeyedByCommand(records))]

\* The lines before the first line parse_line gives None for.
UntilRejected(lines) ==
    SubSeq(lines, 1, Min({i \in 1..Len(lines) : ~IsBlank(lines[i]) /\ Parsed(lines[i]) = <<>>} \cup {Len(lines) + 1}) - 1)

\* A plausible slip: `break` where line 147 has `continue`.
RegisterUntilRejected(reg, lines) ==
    CHOOSE out \in {Register(reg, records) : records \in {ParsedLines(UntilRejected(lines))}} : TRUE

\* Lines 141-158: the loop of analyze_data over its lines.
RegisterAll(reg, lines) ==
    CHOOSE out \in {Register(reg, records) : records \in {ParsedLines(lines)}} : TRUE

\* analyze_data(lines)
analyze_data(lines) ==
    /\ Len(consumed) < MaxLines
    /\ consumed' = consumed \o lines
    /\ report' = <<>>
    /\ payload' = <<>>
    /\ \E reg \in {RegisterAll(Registry, lines)} :
        /\ listeners' = reg.listeners
        /\ connections' = reg.connections
        /\ services_by_port' = reg.services_by_port
        /\ services_by_process' = reg.services_by_process
    /\ UNCHANGED advisorVars

\* print_summary(): report holds what the calls since the last analyze_data
\* worked out, one entry per call.
print_summary ==
    /\ Len(report) < MaxReports
    /\ \E by_port \in {PortLookups(PortLookups(services_by_port, WellKnownPorts), SuspiciousPorts)} :
        /\ services_by_port' = by_port
        /\ \E exposed \in {AllInterfaceListeners(listeners)}, root \in {RootServices(listeners)} :
            report' = Append(report, SecurityReport(listeners, connections, by_port, exposed, root))
    /\ UNCHANGED <<listeners, connections, services_by_process, consumed, payload>>
    /\ UNCHANGED advisorVars

\* get_ai_recommendations(enable_ai): None at once when not enabled (lines
\* 399-400); otherwise the request is prepared from the registry and posted.
\* What comes back is handed to the caller and changes nothing here.
get_ai_recommendations(enable_ai) ==
    /\ payload' = IF enable_ai THEN <<Payload(listeners, connections, services_by_port)>> ELSE payload
    /\ UNCHANGED <<listeners, connections, services_by_port, services_by_process, consumed, report>>
    /\ UNCHANGED advisorVars

InitAdvisor ==
    /\ analysis_cache = <<>>
    /\ now = 0
    /\ req = [r \in Requests |-> Idle]
    /\ issued = 0
    /\ ticks = 0
    /\ returned = <<>>

InitAnalyzer ==
    /\ listeners = <<>>
    /\ connections = <<>>
    /\ services_by_port = <<>>
    /\ services_by_process = <<>>
    /\ consumed = <<>>
    /\ report = <<>>
    /\ payload = <<>>

Init == InitAdvisor /\ InitAnalyzer

NextAdvisor ==
    \/ \E r \in Requests, data \in AnalysisInputs : Start(r, data)
    \/ \E r \in Requests, reply \in RemoteReplies : Complete(r, reply)
    \/ \E d \in ClockSteps : Tick(d)

SpecAdvisor == Init /\ [][NextAdvisor]_vars

NextAnalyzer ==
    \/ \E lines \in InputBatches : analyze_data(lines)
    \/ print_summary
    \/ \E enable_ai \in BOOLEAN : get_ai_recommendations(enable_ai)

SpecAnalyzer == Init /\ [][NextAnalyzer]_vars

Next == NextAdvisor \/ NextAnalyzer

Spec == Init /\ [][Next]_vars

(***************************************************************************)
(* Properties of the advisory cache and fallback.                          *)
(***************************************************************************)
InSeq(x, s) == \E i \in 1..Len(s) : s[i] = x

\* A call of analyze_with_ai ends in this step: from the await, or at once
\* from the cache.
EndsFromAwait(r) == req[r].pc = "awaiting" /\ req'[r].pc = "idle"
EndsFromCache == issued' = issued + 1 /\ req' = req

\* The age of the entry stored under key, as the clock of the model has it.
EntryAge(key) == now - analysis_cache[key][1]

\* C1: a call that ends in the local fallback, whatever made the remote call
\* unusable, writes nothing to analysis_cache.
C1_FallbackNeverCached ==
    [][\A r \in Requests :
          (EndsFromAwait(r) /\ InSeq("LOCAL_FALLBACK", returned'[1].steps))
              => analysis_cache' = analysis_cache]_vars

\* C2: a call is answered from the cache only when the entry is younger than
\* CACHE_DURATION seconds; an entry aged 300 s or more, a day or more
\* included, is never returned.
C2_ExpiredEntryNotServed ==
    [][EndsFromCache => EntryAge(returned'[1].cache_key) < CACHE_DURATION]_vars

\* C3: a call that finds an entry younger than CACHE_DURATION seconds under
\* its key makes no remote call, returns the stored response unchanged and
\* leaves analysis_cache as it is.
C3_FreshEntryServed ==
    [][/\ \A r \in Requests :
             (req[r].pc = "idle" /\ req'[r].pc = "awaiting")
                 => ~(/\ req'[r].cache_key \in DOMAIN analysis_cache
                      /\ EntryAge(req'[r].cache_key) < CACHE_DURATION)
       /\ EndsFromCache =>
             /\ returned'[1].result = <<analysis_cache[returned'[1].cache_key][2]>>
             /\ ~InSeq("REMOTE_CALL", returned'[1].steps)
             /\ analysis_cache' = analysis_cache]_vars

\* A call answered from an entry one second short of CACHE_DURATION.
C3_Witness ==
    /\ returned # <<>>
    /\ InSeq("CACHE_HIT", returned[1].steps)
    /\ returned[1].cache_key \in DOMAIN analysis_cache
    /\ EntryAge(returned[1].cache_key) = CACHE_DURATION - 1

\* C4: two calls with the same cache key are never both waiting for the
\* remote boundary: at most one of them makes the remote call.
C4_OneRemoteCallPerKey ==
    \A r1, r2 \in Requests :
        (r1 # r2 /\ req[r1].pc = "awaiting" /\ req[r2].pc = "awaiting")
            => req[r1].cache_key # req[r2].cache_key

ValidRecommendation(rec) ==
    /\ DOMAIN rec = SecurityRecommendationFields
    /\ rec.severity \in STRING /\ rec.category \in STRING /\ rec.issue \in STRING
    /\ rec.recommendation \in STRING /\ rec.priority \in Int
    /\ \A i \in 1..Len(rec.commands) : rec.commands[i] \in STRING

ValidAIResponse(resp) ==
    /\ DOMAIN resp = AIResponseFields
    /\ resp.overall_assessment \in STRING /\ resp.risk_level \in STRING
    /\ resp.executive_summary \in STRING /\ resp.learning_notes \in STRING
    /\ \A i \in 1..Len(resp.action_items) : resp.action_items[i] \in STRING
    /\ \A i \in 1..Len(resp.recommendations) : ValidRecommendation(resp.recommendations[i])

\* Where the response of an ended call came from.
ResponseSources(call) ==
    {src \in {"cache", "remote", "fallback"} :
        CASE src = "cache" -> InSeq("CACHE_HIT", call.steps)
          [] src = "remote" -> /\ InSeq("REMOTE_CALL", call.steps)
                               /\ call.result # <<_fallback_analysis(call.data)>>
          [] src = "fallback" -> /\ InSeq("LOCAL_FALLBACK", call.steps)
                                 /\ call.result = <<_fallback_analysis(call.data)>>}

\* C5: every call that ends has returned, never raised, and what it returned
\* is a well-formed AIResponse that came from exactly one of the cache, the
\* parsed remote response and the local fallback.
C5_AlwaysReturnsValidResponse ==
    returned # <<>> =>
        /\ returned[1].raised = "none"
        /\ returned[1].steps[Len(returned[1].steps)] = "RETURN"
        /\ Len(returned[1].result) = 1
        /\ ValidAIResponse(returned[1].result[1])
        /\ Cardinality(ResponseSources(returned[1])) = 1

\* A call that fell back after the remote boundary answered with a payload
\* that breaks the schema, or with an error status.
C5_Witness ==
    /\ returned # <<>>
    /\ returned[1].steps = <<"START", "CACHE_MISS", "REMOTE_CALL", "LOCAL_FALLBACK", "RETURN">>
    /\ returned[1].result = <<_fallback_analysis(returned[1].data)>>
    /\ returned[1].cache_key \notin DOMAIN analysis_cache

\* C6: a call makes at most one remote call, and its steps are START, then
\* CACHE_HIT or CACHE_MISS, then REMOTE_CALL, then either CACHE_STORE or
\* LOCAL_FALLBACK, then the return.
C6_SingleAttemptStepOrder ==
    returned # <<>> =>
        returned[1].steps \in
            { <<"START", "CACHE_HIT", "RETURN">>,
              <<"START", "CACHE_MISS", "REMOTE_CALL", "CACHE_STORE", "RETURN">>,
              <<"START", "CACHE_MISS", "REMOTE_CALL", "LOCAL_FALLBACK", "RETURN">> }

\* The number of times x occurs in s.
Count(x, s) == Cardinality({i \in 1..Len(s) : s[i] = x})
\* The two lists hold the same records, in any order.
SameRecords(s1, s2) == \A x \in SeqToSet(s1) \cup SeqToSet(s2) : Count(x, s1) = Count(x, s2)

\* The calls the state knows of: those waiting, and the one that ended last.
KnownCalls ==
    {[data |-> req[r].data[1], cache_key |-> req[r].cache_key] : r \in {q \in Requests : req[q].pc = "awaiting"}}
    \cup {[data |-> returned[i].data, cache_key |-> returned[i].cache_key] : i \in 1..Len(returned)}

\* C7: two calls whose services lists hold the same records, in whatever
\* order, get the same cache key.
C7_KeyOrderIndependent ==
    \A c1, c2 \in KnownCalls :
        SameRecords(c1.data.services, c2.data.services) => c1.cache_key = c2.cache_key

\* A fallback answer for a request that holds a service on port 6379 bound
\* to every interface.
FallbackForExposedRedis ==
    /\ returned # <<>>
    /\ InSeq("LOCAL_FALLBACK", returned[1].steps)
    /\ \E i \in 1..Len(returned[1].data.services) :
          /\ returned[1].data.services[i].port = 6379
          /\ returned[1].data.services[i].interface \in {"*", "0.0.0.0"}

FallbackRecommendationsReturned == returned[1].result[1].recommendations

\* C10, as claimed: the fallback for an exposed Redis holds a recommendation
\* whose commands contain `redis-cli CONFIG SET requirepass ...` and
\* `redis-cli CONFIG REWRITE`.
C10_FallbackGivesRedisCli ==
    FallbackForExposedRedis =>
        \E i \in 1..Len(FallbackRecommendationsReturned) :
            LET commands == FallbackRecommendationsReturned[i].commands IN
            /\ \E c \in 1..Len(commands) : StartsWith(commands[c], "redis-cli CONFIG SET requirepass")
            /\ \E c \in 1..Len(commands) : commands[c] = "redis-cli CONFIG REWRITE"

\* C10, amended: the fallback for an exposed Redis holds a CRITICAL
\* recommendation whose commands are the configuration-file steps of
\* _get_fix_commands, and no recommendation of it holds a redis-cli command.
C10_FallbackGivesConfigFileSteps ==
    FallbackForExposedRedis =>
        /\ \E i \in 1..Len(FallbackRecommendationsReturned) :
              /\ FallbackRecommendationsReturned[i].severity = "CRITICAL"
              /\ FallbackRecommendationsReturned[i].commands =
                    <<"# Edit Redis config",
                      "sudo nano /etc/redis/redis.conf",
                      "# Add: bind 127.0.0.1",
                      "# Add: requirepass your_strong_password_here",
                      "sudo systemctl restart redis">>
        /\ \A i \in 1..Len(FallbackRecommendationsReturned) :
              \A c \in 1..Len(FallbackRecommendationsReturned[i].commands) :
                  ~StartsWith(FallbackRecommendationsReturned[i].commands[c], "redis-cli")

C10_Witness == FallbackForExposedRedis /\ Len(FallbackRecommendationsReturned) > 0

(***************************************************************************)
(* Properties of the report of print_summary.                              *)
(***************************************************************************)
\* A: the distinct (command, port, user) of the listeners on every interface.
DistinctExposed ==
    {<<listeners[i].command, listeners[i].port, listeners[i].user>> :
        i \in {j \in 1..Len(listeners) : OnAllInterfaces(listeners[j]) /\ "port" \in DOMAIN listeners[j]}}
\* K: the known-risk ports with at least one listener.
RiskPortsInUse ==
    {p \in SuspiciousPorts : \E i \in 1..Len(listeners) : GetPort(listeners[i], 0) = p}
\* R: the listeners of root on a port above 1024.
RootHighListeners ==
    {i \in 1..Len(listeners) : listeners[i].user = "root" /\ GetPort(listeners[i], 0) > 1024}

\* C8: the score is max(0, 100 - 10*A - 5*K - 2*R), A counting each distinct
\* (command, port, user) once.
C8_ScoreCountsDistinctExposed ==
    report # <<>> =>
        report[1].score =
            Max(0, 100 - 10 * Cardinality(DistinctExposed)
                       - 5 * Cardinality(RiskPortsInUse)
                       - 2 * Cardinality(RootHighListeners))

RedisLine == "redis-server 1234 root 6u IPv4 0xabc123 0t0 TCP *:6379 (LISTEN)"

\* The report of an input that is the Redis listener line alone.
ReportOfRedisAlone == consumed = <<RedisLine>> /\ report # <<>>

RedisFindingIsCritical ==
    /\ \E f \in report[1].findings : f.port = 6379
    /\ \A f \in report[1].findings : f.port = 6379 => f.severity = "CRITICAL"

\* C9, as claimed: the Redis line alone scores 90, with a CRITICAL finding
\* for port 6379.
C9_RedisAloneScores90 ==
    ReportOfRedisAlone => (report[1].score = 90 /\ RedisFindingIsCritical)

\* C9, amended: the Redis line alone scores 83 (100 - 10 for the exposure,
\* - 5 for the known-risk port, - 2 for root on a port above 1024), with a
\* CRITICAL finding for port 6379.
C9_RedisAloneScores83 ==
    ReportOfRedisAlone => (report[1].score = 83 /\ RedisFindingIsCritical)

C9_Witness == ReportOfRedisAlone /\ Len(listeners) = 1 /\ listeners[1].port = 6379

(***************************************************************************)
(* Properties of the registry analyze_data builds.                         *)
(***************************************************************************)
\* The records parse_line gives for the lines consumed so far.
ParsedRecords ==
    {Parsed(consumed[i])[1] : i \in {j \in 1..Len(consumed) : ~IsBlank(consumed[j]) /\ Parsed(consumed[j]) # <<>>}}

InIndex(data, index) == \E k \in DOMAIN index : InSeq(data, index[k])

\* C11: after analyze_data every parsed LISTENING record is in listeners,
\* every ESTABLISHED, CLOSED or SYN_SENT record is in connections, an OTHER
\* record is in none of listeners, connections and services_by_port,
\* services_by_port holds only LISTENING records that have a port, and every
\* parsed record is in services_by_process under its command.
C11_RecordsFiledByState ==
    /\ \A d \in ParsedRecords :
        /\ d.state = "LISTENING" => InSeq(d, listeners)
        /\ d.state \in {"ESTABLISHED", "CLOSED", "SYN_SENT"} => InSeq(d, connections)
        /\ d.state = "OTHER" =>
              ~InSeq(d, listeners) /\ ~InSeq(d, connections) /\ ~InIndex(d, services_by_port)
        /\ d.command \in DOMAIN services_by_process
        /\ InSeq(d, services_by_process[d.command])
    /\ \A p \in DOMAIN services_by_port : \A i \in 1..Len(services_by_port[p]) :
        /\ services_by_port[p][i].state = "LISTENING"
        /\ "port" \in DOMAIN services_by_port[p][i]
        /\ services_by_port[p][i].port = p

\* An OTHER record that has a port and a listener were both filed.
C11_Witness ==
    /\ \E d \in ParsedRecords : d.state = "OTHER" /\ "port" \in DOMAIN d
    /\ \E d \in ParsedRecords : d.state = "LISTENING" /\ InIndex(d, services_by_port)

\* A line parse_line is to give None for: a header line, a line with fewer
\* fields than the least number, a line none of whose fields is a protocol.
IsMalformed(line) ==
    \/ StartsWith(line, "COMMAND")
    \/ \E fields \in {Split(line)} :
          \/ Len(fields) < MinFields
          \/ ~\E i \in 1..Len(fields) : fields[i] \in {"TCP", "UDP", "ICMP", "ICMPV6"}

\* The malformed lines among the input lines.
RejectedLines == {line \in AllInputLines : IsMalformed(line)}

Rejected(line) == line \in RejectedLines

NotRejected(line) == ~Rejected(line)

\* The lines the step at hand has consumed.
NewLines == SubSeq(consumed', Len(consumed) + 1, Len(consumed'))

\* C12: a malformed line never aborts the batch: parse_line gives None for a
\* header line, a line with too few fields and a line with no protocol field,
\* and analyze_data over lines that hold such lines builds the registry it
\* builds over the same lines with those left out.
C12_MalformedLinesSkipped ==
    [][consumed' # consumed =>
          \E new \in {NewLines} :
              /\ \A i \in 1..Len(new) : Rejected(new[i]) => parse_line(new[i]) = <<>>
              /\ Registry' = RegisterAll(Registry, SelectSeq(new, NotRejected))]_vars

\* A whole lsof output, with its header and a cut-off line, has been analysed
\* and its two good records are in the registry.
C12_Witness ==
    /\ consumed = LsofOutput
    /\ \E i \in 1..Len(consumed) : Rejected(consumed[i])
    /\ Len(listeners) = 2

(***************************************************************************)
(* Properties of the score.                                                *)
(***************************************************************************)
\* C13: the score is always an integer from 0 to 100, for every registry
\* analyze_data can build, those with more than ten exposed listeners included.
C13_ScoreWithinRange == \A i \in 1..Len(report) : report[i].score \in 0..100

\* A report over more than ten exposed listeners, where the penalties pass 100.
C13_Witness ==
    /\ report # <<>>
    /\ Len(report[1].all_interface_listeners) > 10
    /\ 100 - 10 * Len(report[1].all_interface_listeners) < 0
    /\ report[1].score = 0

\* The score print_summary would give for a registry.
ScoreOf(reg) == Score(AllInterfaceListeners(reg.listeners), reg.services_by_port, RootServices(reg.listeners))

\* The single lines that parse to a listener.
ListenerLines == {line \in AllInputLines : Parsed(line) # <<>> /\ Parsed(line)[1].state = "LISTENING"}

\* C14: appending one more listener line to an otherwise identical input
\* never increases the score.
C14_ScoreMonotone ==
    /\ \A line \in ListenerLines : ScoreOf(RegisterAll(Registry, <<line>>)) <= ScoreOf(Registry)
    /\ \A i \in 1..Len(report) : report[i].score = ScoreOf(Registry)

\* A report was made, and one more listener line would lower its score.
C14_Witness ==
    /\ report # <<>>
    /\ listeners # <<>>
    /\ \E line \in ListenerLines : ScoreOf(RegisterAll(Registry, <<line>>)) < report[1].score

(***************************************************************************)
(* Properties of the exposure and connection findings.                     *)
(***************************************************************************)
\* The address a listener is bound to: its name up to the last colon of the
\* address:port word.
LastColon(word) == CHOOSE i \in 0..Len(word) : (i = 0 \/ Char(word, i) = ":") /\ \A j \in (i + 1)..Len(word) : Char(word, j) # ":"

BoundAddress(listener) == SubSeq(Split(listener.name)[1], 1, LastColon(Split(listener.name)[1]) - 1)

\* Some finding of the report is about this listener.
HasFinding(rep, listener) ==
    \E f \in rep.findings :
        /\ f.command = listener.command
        /\ f.user = listener.user
        /\ "port" \in DOMAIN listener => f.port = listener.port

\* The severity the table of the rule gives a port.
SeverityByTable(port) ==
    CASE port \in {23, 6379, 27017, 9200} -> "CRITICAL"
      [] port \in {21, 22, 3389, 5900, 5432, 3306} -> "HIGH"
      [] port \notin {23, 6379, 27017, 9200, 21, 22, 3389, 5900, 5432, 3306} /\ port < 1024 -> "MEDIUM"
      [] OTHER -> "LOW"

RemotePart(conn) == SubSeq(conn.name, Find(conn.name, "->", 1) + 2, Len(conn.name))

\* The remote address: the address:port word after the arrow up to its last
\* colon, without the brackets of an IPv6 literal.
Unbracketed(addr) ==
    IF Len(addr) >= 2 /\ Char(addr, 1) = "[" /\ Char(addr, Len(addr)) = "]"
    THEN SubSeq(addr, 2, Len(addr) - 1)
    ELSE addr

RemoteAddress(conn) ==
    Unbracketed(SubSeq(Split(RemotePart(conn))[1], 1, LastColon(Split(RemotePart(conn))[1]) - 1))

IsLoopback(addr) == StartsWith(addr, "127.") \/ addr = "localhost" \/ addr = "::1"

\* 10.0.0.0/8, 172.16.0.0/12, 192.168.0.0/16, fe80: and fd00::/8.
IsPrivateAddress(addr) ==
    \/ StartsWith(addr, "10.")
    \/ \E o \in {"16", "17", "18", "19", "20", "21", "22", "23", "24", "25", "26", "27", "28", "29", "30", "31"} : StartsWith(addr, "172." \o o \o ".")
    \/ StartsWith(addr, "192.168.")
    \/ StartsWith(addr, "fe80:")
    \/ StartsWith(addr, "fd")

\* Some entry of external_connections is about this connection.
ListedAsExternal(rep, conn) ==
    \E k \in 1..Len(rep.external_connections) :
        /\ rep.external_connections[k][1] = conn.command
        /\ StartsWith(RemotePart(conn), rep.external_connections[k][2])

\* C16: an ESTABLISHED connection with a local->remote arrow is listed in
\* external_connections exactly when its remote address is neither loopback
\* nor private, a bracketed IPv6 literal included.
C16_ExternalIffNotPrivate ==
    \A i \in 1..Len(report) : \A k \in 1..Len(connections) :
        (connections[k].state = "ESTABLISHED" /\ Contains(connections[k].name, "->")) =>
            (ListedAsExternal(report[i], connections[k])
                <=> ~IsLoopback(RemoteAddress(connections[k])) /\ ~IsPrivateAddress(RemoteAddress(connections[k])))

(***************************************************************************)
(* Properties of print_summary as a whole.                                 *)
(***************************************************************************)
\* C17: print_summary is a pure function of the registry: it leaves
\* listeners, connections, services_by_port and services_by_process as they
\* were (no lookup adds a key to an index), and a second evaluation on the
\* same registry gives the same score and the same findings as the first.
C17_ReportIsPure ==
    [][Len(report') = Len(report) + 1 =>
          /\ Registry' = Registry
          /\ report # <<>> => report'[Len(report')] = report[Len(report)]]_vars

\* print_summary ran twice over a registry where it did read services_by_port
\* for a port of its tables and where other ports of the tables are not in use.
C17_Witness ==
    /\ Len(report) = 2
    /\ report[1] = report[2]
    /\ 6379 \in DOMAIN services_by_port
    /\ 23 \notin DOMAIN services_by_port

\* C18: for an input with no recognizable record (no line at all, blank
\* lines, header lines, rejected lines) the analysis completes, the score is
\* 100, and there are no all-interface listeners, no root services on high
\* ports and no external connections.
C18_EmptyInputScores100 ==
    (\A k \in 1..Len(consumed) : IsBlank(consumed[k]) \/ Rejected(consumed[k])) =>
        /\ Registry = [listeners |-> <<>>, connections |-> <<>>, services_by_port |-> <<>>, services_by_process |-> <<>>]
        /\ \A i \in 1..Len(report) :
            /\ report[i].score = 100
            /\ report[i].all_interface_listeners = <<>>
            /\ report[i].findings = {}
            /\ report[i].root_services = <<>>
            /\ report[i].external_connections = <<>>

\* A report over an input of a cut-off listener line and a blank line.
C18_Witness ==
    /\ report # <<>>
    /\ Len(consumed) = 2
    /\ \E k \in 1..2 : IsBlank(consumed[k])
    /\ \E k \in 1..2 : ~IsBlank(consumed[k]) /\ Len(Split(consumed[k])) < MinFields /\ Contains(consumed[k], "(LISTEN)")

\* The categories in the order of the table.
CategoryOrder ==
    <<"system", "file_sharing", "development", "communication", "media", "browsers", "productivity", "system_services">>

\* The places in the table of the categories one of whose tokens is in the command.
MatchingCategories(command) ==
    {i \in 1..Len(service_categories) :
        \E k \in 1..Len(service_categories[i].services) : Contains(command, service_categories[i].services[k])}

CategoryOf(rep, command) == {rep.categorized[k].category : k \in {j \in 1..Len(rep.categorized) : rep.categorized[j].command = command}}

\* C19: categorize_service gives the first category, in the order of the
\* table, one of whose tokens is a case-sensitive substring of the command,
\* and `other` when there is none: node is development, launchd is system,
\* and a command with tokens of two categories gets the earlier one.
C19_FirstMatchingCategory ==
    /\ \A i \in 1..Len(service_categories) : service_categories[i].category = CategoryOrder[i]
    /\ \A i \in 1..Len(report) : \A k \in 1..Len(report[i].categorized) :
        LET entry == report[i].categorized[k] IN
            /\ entry.category = IF MatchingCategories(entry.command) = {} THEN "other"
                                ELSE CategoryOrder[Min(MatchingCategories(entry.command))]
            /\ entry.command = "node" => entry.category = "development"
            /\ entry.command = "launchd" => entry.category = "system"
            /\ entry.command = "ssh-node" => entry.category = "development"
            /\ entry.command = "dockerd" => entry.category = "other"

\* A report lists a command with tokens of two categories (ssh, node) and one
\* with none.
C19_Witness ==
    /\ report # <<>>
    /\ CategoryOf(report[1], "ssh-node") = {"development"}
    /\ Cardinality(MatchingCategories("ssh-node")) = 2
    /\ CategoryOf(report[1], "dockerd") = {"other"}

(***************************************************************************)
(* Concurrent requests and the advisory cache.                             *)
(***************************************************************************)
KeyOf == [d \in AnalysisInputs |-> _generate_cache_key(d)]

\* The responses a request with this data can have stored.
StorableFor == [d \in AnalysisInputs |-> {AfterReply(d, reply).result[1] : reply \in {q \in RemoteReplies : AfterReply(d, q).store}}]

\* An entry is a whole (timestamp, response) pair whose response a request
\* with the key of the entry produced.
WholeEntry(key) ==
    /\ DOMAIN analysis_cache[key] = 1..2
    /\ analysis_cache[key][1] \in 0..now
    /\ ValidAIResponse(analysis_cache[key][2])
    /\ \E d \in AnalysisInputs : KeyOf[d] = key /\ analysis_cache[key][2] \in StorableFor[d]

\* A write to the cache is made by one request that ends, under the key of
\* its own data, and holds what that request returns; no other entry changes.
WriteByOwner ==
    analysis_cache' # analysis_cache =>
        \E r \in Requests :
            /\ req[r].pc = "awaiting" /\ req'[r].pc = "idle"
            /\ req[r].cache_key = KeyOf[req[r].data[1]]
            /\ DOMAIN analysis_cache' = DOMAIN analysis_cache \cup {req[r].cache_key}
            /\ \A k \in DOMAIN analysis_cache \ {req[r].cache_key} : analysis_cache'[k] = analysis_cache[k]
            /\ analysis_cache'[req[r].cache_key] = <<now, returned'[1].result[1]>>
            /\ returned'[1].data = req[r].data[1]

\* C20: under every interleaving of requests, with the same key or with
\* different keys, each entry of analysis_cache is always a whole
\* (timestamp, response) pair whose response one request with that same key
\* produced: never a partial entry, never a response under another request's key.
C20_RaceIsBenign ==
    /\ [](\A key \in DOMAIN analysis_cache : WholeEntry(key))
    /\ [][WriteByOwner]_vars

\* Two requests with the same key were in flight together: one has stored
\* its entry and the other is still waiting.
C20_Witness ==
    /\ ticks = 0
    /\ \E r \in Requests : req[r].pc = "awaiting" /\ req[r].cache_key \in DOMAIN analysis_cache

(***************************************************************************)
(* C21: the aggregate risk_level of a fallback response.                   *)
(***************************************************************************)
SeverityRank(severity) ==
    CASE severity = "CRITICAL" -> 4
      [] severity = "HIGH" -> 3
      [] severity = "MEDIUM" -> 2
      [] OTHER -> 1

\* The highest severity among these recommendations.
MaxSeverity(recommendations) ==
    CHOOSE severity \in {recommendations[i].severity : i \in 1..Len(recommendations)} :
        \A j \in 1..Len(recommendations) : SeverityRank(recommendations[j].severity) <= SeverityRank(severity)

\* The call that ended last returned what _fallback_analysis built for its data.
FallbackReturned == returned # <<>> /\ InSeq("LOCAL_FALLBACK", returned[1].steps)

\* C21: the risk_level of a fallback response is the maximum severity among
\* its recommendations (CRITICAL > HIGH > MEDIUM > LOW); with no
\* recommendation it is MEDIUM for security_score < 60 and LOW otherwise.
\* So MEDIUM-only findings with security_score >= 60 give MEDIUM.
C21_RiskLevelIsMaxSeverity ==
    FallbackReturned =>
        LET response == returned[1].result[1] IN
        response.risk_level =
            IF response.recommendations # <<>> THEN MaxSeverity(response.recommendations)
            ELSE IF returned[1].data.security_score < 60 THEN "MEDIUM"
            ELSE "LOW"

(***************************************************************************)
(* C22: the port of a LISTENING record.                                    *)
(***************************************************************************)
\* The address:port word of a listener, and the text after its last colon.
BoundWord(listener) == Split(listener.name)[1]
AfterBoundAddress(listener) == SubSeq(BoundWord(listener), LastColon(BoundWord(listener)) + 1, Len(BoundWord(listener)))

AllDigits(str) == str # "" /\ \A i \in 1..Len(str) : Char(str, i) \in Digits

\* `*`, a dotted IPv4 literal or a bracketed IPv6 literal.
IsAddressLiteral(addr) ==
    \/ addr = "*"
    \/ addr # "" /\ \A i \in 1..Len(addr) : Char(addr, i) \in Digits \cup {"."}
    \/ Len(addr) >= 2 /\ Char(addr, 1) = "[" /\ Char(addr, Len(addr)) = "]"

\* C22: for a LISTENING record the port is the digits that immediately
\* follow the bound address (`*`, dotted IPv4 or bracketed IPv6), never
\* digits from inside the address: [::1]:8080 has port 8080.
C22_PortFollowsBoundAddress ==
    \A k \in 1..Len(listeners) :
        (LastColon(BoundWord(listeners[k])) > 0 /\ IsAddressLiteral(BoundAddress(listeners[k])) /\ AllDigits(AfterBoundAddress(listeners[k]))) =>
            /\ "port" \in DOMAIN listeners[k]
            /\ listeners[k].port = ToInt(AfterBoundAddress(listeners[k]), 0)

(***************************************************************************)
(* C23: the interface of each listener sent to the advisor.                *)
(***************************************************************************)
\* The listeners get_ai_recommendations sends: those with a port.
SentListeners == SelectSeq(listeners, HasPortKey)

IsWildcardBound(listener) == BoundAddress(listener) \in {"*", "0.0.0.0"}

\* C23: the interface of each listener in the request is `*` or `0.0.0.0`
\* when the listener is bound to that wildcard, and otherwise its literal
\* bound address; so a listener on 0.0.0.0:6379 matches the exposed-Redis
\* rule of the fallback, and one bound to a specific non-loopback address is
\* not sent as 127.0.0.1.
C23_InterfaceIsBoundAddress ==
    payload # <<>> =>
        /\ Len(payload[1].services) = Len(SentListeners)
        /\ \A k \in 1..Len(SentListeners) :
            LET service == payload[1].services[k]
                listener == SentListeners[k]
            IN /\ IF IsWildcardBound(listener)
                  THEN service.interface \in {"*", "0.0.0.0"}
                  ELSE service.interface = BoundAddress(listener)
               /\ (IsWildcardBound(listener) /\ service.port = 6379) => PatternMatches("redis_exposed", service)

(***************************************************************************)
(* C24: the cache is looked up by the services alone.                      *)
(***************************************************************************)
\* Two requests that differ, if at all, outside their services list.
SameServices(d1, d2) == d1.services = d2.services

\* The key of each request, by its services.
ServiceKeys == {<<d.services, _generate_cache_key(d)>> : d \in AnalysisInputs}

\* The keys of the requests with the services of this one.
KeysFor(data) == {entry[2] : entry \in {e \in ServiceKeys : e[1] = data.services}}

\* Requests with the same services have the same key.
OneKeyPerServices == \A d1, d2 \in AnalysisInputs : SameServices(d1, d2) => _generate_cache_key(d1) = _generate_cache_key(d2)

\* An entry stored for a request with the services of this one, less than
\* CACHE_DURATION seconds old.
FreshEntriesFor(data) ==
    {key \in KeysFor(data) \cap DOMAIN analysis_cache : now - analysis_cache[key][1] \in 0..(CACHE_DURATION - 1)}

\* A call that starts in this step finds a fresh entry stored for its
\* services: it sends nothing and ends with the response of that entry.
ServedFromEntryOfSameServices ==
    /\ \A r \in Requests : (req[r].pc = "idle" /\ req'[r].pc = "awaiting") => FreshEntriesFor(req'[r].data[1]) = {}
    /\ (issued' = issued + 1 /\ req' = req) =>
          /\ returned' # <<>>
          /\ analysis_cache' = analysis_cache
          /\ \E key \in KeysFor(returned'[1].data) \cap DOMAIN analysis_cache :
                returned'[1].result = <<analysis_cache[key][2]>>

\* C24: within the freshness window the lookup depends on the services list
\* alone: requests with the same services and a different security_score,
\* vulnerabilities, external_connections or suspicious_ports have the same
\* key, and the later one receives the response stored for the earlier one.
C24_LookupByServicesOnly ==
    /\ []OneKeyPerServices
    /\ [][ServedFromEntryOfSameServices]_vars

\* A request with security_score 50 and its own vulnerabilities, external
\* connections and suspicious ports was answered from the cache with the
\* fallback response worked out for the request with security_score 90.
C24_Witness ==
    /\ returned # <<>>
    /\ InSeq("CACHE_HIT", returned[1].steps)
    /\ returned[1].data.security_score = 50
    /\ returned[1].data.vulnerabilities # <<>>
    /\ returned[1].result = <<_fallback_analysis(NetworkAnalysis(<<SvcNode>>, 90))>>
    /\ returned[1].result # <<_fallback_analysis(returned[1].data)>>

(***************************************************************************)
(* C25: the score sent to the advisor and the score displayed.             *)
(***************************************************************************)
\* C25: for every registry, the security_score get_ai_recommendations puts
\* in its request equals the score print_summary works out for the same
\* registry.
C25_AdvisorScoreIsDisplayedScore ==
    (report # <<>> /\ payload # <<>>) =>
        \A i \in 1..Len(report) : payload[1].security_score = report[i].score

====
